---- MODULE Spec2Model ----
(***************************************************************************)
(* Badger Connect backend (backend/server.js): waiting queues per mode,    *)
(* pairing, session registry, relay, reputation ledger and ban, identity   *)
(* registry, connection lifecycle.  Every socket.io handler runs to        *)
(* completion on the single node event loop, so each handler is one        *)
(* atomic action.  The web client (SocketProvider, App, the text and the   *)
(* video page) is a set of tabs whose packets to and from the server are   *)
(* in flight between a handler of one side and a handler of the other.     *)
(***************************************************************************)
EXTENDS Integers, Sequences, FiniteSets, TLC

(* ------------------------------ bounds -------------------------------- *)
\* connections ever opened (socket ids are fresh per connection)
MaxHandles == 2
\* sessions ever created (uuidv4 values are fresh per session)
MaxSessions == 1
\* connections ever opened under SpecWide
WideHandles == 3
\* sessions ever created under SpecWide
WideSessions == 2
\* connections ever opened under SpecFifo
FifoHandles == 4
\* sessions ever created under SpecFifo
FifoSessions == 2
\* connections ever opened under SpecPair
PairHandles == 2
\* sessions ever created under SpecPair
PairSessions == 1
\* connections ever opened under SpecInput
InputHandles == 2
\* sessions ever created under SpecInput
InputSessions == 1
\* cap of each counter of one record under SpecInput
InputReactions == 1
\* connections ever opened under SpecClock
ClockHandles == 2
\* sessions ever created under SpecClock
ClockSessions == 1
\* the latest time the server clock reaches
MaxClock == 3
\* connections ever opened under SpecRepeat
RepeatHandles == 2
\* connections ever opened under SpecCase
CaseHandles == 2
\* sessions ever created under SpecCase
CaseSessions == 1
\* connections ever opened under SpecMatch
MatchHandles == 2
\* sessions ever created under SpecMatch
MatchSessions == 1
\* tabs, connections, sessions and packets in flight per tab and direction
\* under SpecLogin, SpecLounge and SpecVideo
LoginTabs == 1
LoginHandles == 2
LoginSessions == 1
LoginWire == 2
LoungeTabs == 2
LoungeSessions == 1
LoungeWire == 2
VideoTabs == 2
VideoSessions == 1
VideoWire == 2
\* connections and sessions under SpecDrain
DrainHandles == 2
DrainSessions == 1
\* connections under SpecRegistry
RegistryHandles == 2
\* cap of the likes counter of one record
MaxLikes == 1
\* cap of the dislikes counter of one record
MaxDislikes == 1
\* cap of the dislikes counter of one record under SpecLedger
LedgerDislikes == 10
\* cap of the reports counter of one record
MaxReports == 3

(* ------------------------- program constants -------------------------- *)
REPORT_THRESHOLD == 3
DISLIKE_THRESHOLD == 10
\* the client's own copies of the two thresholds (FeedbackContext)
ClientReportThreshold == 3
ClientDislikeThreshold == 10

\* waitingQueues has exactly the keys text and video
Modes == {"text", "video"}
\* what a client may put in the mode field: a key, nothing, or a non-key
ModeInputs == Modes \cup {"", "voice"}
\* raw email strings a client may assert; "" is a missing email
RawEmails == {"", "a@wisc.edu", "A@wisc.edu", "b@wisc.edu"}
\* the emails reactions are applied to on both sides (SpecMirror)
MirrorEmails == {"a@wisc.edu", "b@wisc.edu"}
\* the emails of one user, in both spellings
OneUser == {"a@wisc.edu", "A@wisc.edu"}
\* the profile:update payload of a client that sends its email only
Login(e) == [email |-> e]
\* profile:update payloads of two users: a UserProfile (name, email,
\* interests) with one more field the client has added, and a payload that
\* has an email and nothing else
FullProfile == [name |-> "Ann", email |-> "A@wisc.edu",
                interests |-> <<"chess">>, likes |-> 9]
BareProfile == [email |-> "b@wisc.edu"]
ProfilePayloads == {FullProfile, BareProfile}
ReactionTypes == {"like", "dislike", "report"}
\* what a client may put in the type field of a reaction: a type, nothing,
\* or a string that is no type
TypeInputs == ReactionTypes \cup {"", "wave"}
\* the body of a chat message ("" is a missing body)
Bodies == {"", "hi"}
\* the description or candidate of a signaling message
Payloads == {"missing", "sdp"}
SignalEvents == {"webrtc:offer", "webrtc:answer", "webrtc:ice-candidate"}
\* the events whose handler destructures its first argument
DestructuringEvents ==
    {"match:request", "chat:text:message", "chat:leave", "profile:reaction"}
        \cup SignalEvents
\* the profile:update payload {} (also the default of a missing payload)
NoFields == << >>
NoProfile == [none |-> TRUE]
\* session id field of a payload: 0 is a missing session id
SidInputs(maxS) == 0..maxS

VARIABLES
    opened,         \* number of connections accepted so far
    live,           \* io.sockets.sockets: ids of the connected sockets
    profile,        \* socket.data.profile per socket
    mode,           \* socket.data.mode per socket
    reputations,    \* Map email -> {likes, dislikes, reports, banned}
    waitingQueues,  \* {text: [...], video: [...]} of socket ids
    sessions,       \* Map sessionId -> {mode, participants}
    issued,         \* number of session ids issued so far
    emailToSockets, \* Map email -> Set of socket ids
    out,            \* events emitted by the handler that ran last, in order
    last,           \* the handler that ran last and the socket it ran for
    run,            \* history: the accepted requests of one mode in a row
    up,             \* the node process is running
    clock,          \* the server's system time, as Date.now() reads it
    feedback,       \* client: the reputations state of FeedbackProvider
    drain,          \* the position of attemptPair's loop, when it is stepped
    client          \* the browser tabs: socket, user, page and its state

vars == <<opened, live, profile, mode, reputations, waitingQueues, sessions,
          issued, emailToSockets, out, last, run, up, clock,
          feedback, drain, client>>

(* ------------------------------ helpers ------------------------------- *)
\* toLowerCase leaving the string as it is
ToLowerCaseKept(s) == s

\* String.prototype.toLowerCase on the email strings of RawEmails
ToLowerCase(s) == IF s = "A@wisc.edu" THEN "a@wisc.edu" ELSE s

ZeroRep == [likes |-> 0, dislikes |-> 0, reports |-> 0, banned |-> FALSE]

\* getReputation storing the zero record without looking for a stored one
TouchReputationAlways(reps, email) ==
    IF email = "" THEN reps
    ELSE [e \in DOMAIN reps \cup {email} |->
            IF e = email THEN ZeroRep ELSE reps[e]]

\* the ledger after getReputation(email): a read of an unseen non-empty
\* email stores the zero record
TouchReputation(reps, email) ==
    IF email = "" \/ email \in DOMAIN reps THEN reps
    ELSE [e \in DOMAIN reps \cup {email} |->
            IF e = email THEN ZeroRep ELSE reps[e]]

\* getReputation answering with a fresh zero record for every email
GetReputationFresh(reps, email) == ZeroRep

\* the record getReputation(email) returns
GetReputation(reps, email) ==
    IF email = "" \/ email \notin DOMAIN reps THEN ZeroRep ELSE reps[email]

\* applyReaction with > for >= in the threshold test
ReactedRecordLate(p, type) ==
    LET q == [p EXCEPT
                !.likes = IF type = "like" THEN @ + 1 ELSE @,
                !.dislikes = IF type = "dislike" THEN @ + 1 ELSE @,
                !.reports = IF type = "report" THEN @ + 1 ELSE @]
    IN  IF q.reports > REPORT_THRESHOLD \/ q.dislikes > DISLIKE_THRESHOLD
        THEN [q EXCEPT !.banned = TRUE]
        ELSE q

\* the record applyReaction leaves for the email
ReactedRecord(p, type) ==
    LET q == [p EXCEPT
                !.likes = IF type = "like" THEN @ + 1 ELSE @,
                !.dislikes = IF type = "dislike" THEN @ + 1 ELSE @,
                !.reports = IF type = "report" THEN @ + 1 ELSE @]
    IN  IF q.reports >= REPORT_THRESHOLD \/ q.dislikes >= DISLIKE_THRESHOLD
        THEN [q EXCEPT !.banned = TRUE]
        ELSE q

\* applyReaction counting each reaction type once per email
ApplyReactionOnce(reps, email, type) ==
    IF email = "" THEN reps
    ELSE LET t == TouchReputation(reps, email)
             seen == \/ type = "like" /\ t[email].likes > 0
                     \/ type = "dislike" /\ t[email].dislikes > 0
                     \/ type = "report" /\ t[email].reports > 0
         IN  IF seen THEN t
             ELSE [t EXCEPT ![email] = ReactedRecord(t[email], type)]

\* the ledger after applyReaction(email, type); an empty email works on a
\* throwaway zero record
ApplyReaction(reps, email, type) ==
    IF email = "" THEN reps
    ELSE LET t == TouchReputation(reps, email)
         IN  [t EXCEPT ![email] = ReactedRecord(t[email], type)]

\* the registry after registerSocketForEmail(socketId, email)
RegisterSocketForEmail(reg, h, email) ==
    IF email = "" THEN reg
    ELSE LET n == ToLowerCase(email)
         IN  [e \in DOMAIN reg \cup {n} |->
                IF e = n
                THEN (IF n \in DOMAIN reg THEN reg[n] ELSE {}) \cup {h}
                ELSE reg[e]]

\* unregisterSocket leaving an emptied set under its email
UnregisterSocketKeepEmpty(reg, h) == [e \in DOMAIN reg |-> reg[e] \ {h}]

\* the registry after unregisterSocket(socketId)
UnregisterSocket(reg, h) ==
    LET keep == {e \in DOMAIN reg : reg[e] \ {h} # {}}
    IN  [e \in keep |-> reg[e] \ {h}]

FilterOut(q, h) == SelectSeq(q, LAMBDA x : x # h)

\* removeFromQueues with the filtered array dropped instead of stored
RemoveFromQueuesKept(qs, h) == qs

\* removeFromQueues emptying every queue
RemoveFromQueuesAll(qs, h) == [m \in Modes |-> <<>>]

\* the queues after removeFromQueues(socketId)
RemoveFromQueues(qs, h) == [m \in Modes |-> FilterOut(qs[m], h)]

SeqToSet(q) == {q[i] : i \in 1..Len(q)}

\* findSessionBySocket: Map iteration is insertion order, and ids are
\* issued in increasing order here; 0 stands for null
FindSessionBySocket(sess, h) ==
    LET found == {s \in DOMAIN sess :
                    h \in SeqToSet(sess[s].participants)}
    IN  IF found = {} THEN 0
        ELSE CHOOSE s \in found : \A t \in found : s <= t

\* participants.find((id) => id !== senderId); 0 stands for undefined
PeerOf(participants, h) ==
    IF participants[1] # h THEN participants[1]
    ELSE IF participants[2] # h THEN participants[2]
    ELSE 0

\* sanitizeProfile with the stored profile handed on as it is
SanitizeProfileAll(p) == p

\* sanitizeProfile(profile): name, email and interests and nothing else;
\* a missing or empty name reads as 'Unknown Badger', missing interests as
\* [].  It is only called for sockets taken from a queue, whose profile is
\* set.
SanitizeProfile(p) ==
    [name |-> IF "name" \in DOMAIN p /\ p.name # "" THEN p.name
              ELSE "Unknown Badger",
     email |-> IF "email" \in DOMAIN p THEN p.email ELSE "undefined",
     interests |-> IF "interests" \in DOMAIN p THEN p.interests ELSE <<>>]

\* io.to(socketId).emit: reaches the socket only while it is connected
EmitTo(lv, msg) == IF msg.to \in lv THEN <<msg>> ELSE <<>>

\* the modes whose queue holds the socket
WaitingModes(qs, h) == {m \in Modes : h \in SeqToSet(qs[m])}

\* the sessions the socket is a participant of
SessionsOf(sess, h) ==
    {s \in DOMAIN sess : h \in SeqToSet(sess[s].participants)}

(* ------------------------------ pairing ------------------------------- *)
\* attemptPair with the two shifted entries taken in the other order
RECURSIVE AttemptPairSwapped(_, _, _, _, _, _)
AttemptPairSwapped(q, sess, n, lv, prof, m) ==
    IF Len(q) < 2
    THEN [queue |-> q, sessions |-> sess, issued |-> n, out |-> <<>>]
    ELSE LET first == q[2]
             second == q[1]
             rest == SubSeq(q, 3, Len(q))
         IN  IF first \notin lv \/ second \notin lv
             THEN AttemptPairSwapped(rest, sess, n, lv, prof, m)
             ELSE LET sid == n + 1
                      made == [s \in DOMAIN sess \cup {sid} |->
                                 IF s = sid
                                 THEN [mode |-> m,
                                       participants |-> <<first, second>>]
                                 ELSE sess[s]]
                      r == AttemptPairSwapped(rest, made, sid, lv, prof, m)
                  IN  [r EXCEPT !.out =
                         << [to |-> first, ev |-> "match:paired",
                             sid |-> sid, mode |-> m,
                             partnerProfile |-> SanitizeProfile(prof[second]),
                             initiator |-> TRUE],
                            [to |-> second, ev |-> "match:paired",
                             sid |-> sid, mode |-> m,
                             partnerProfile |-> SanitizeProfile(prof[first]),
                             initiator |-> FALSE] >> \o @]

\* attemptPair returning at once
AttemptPairNone(q, sess, n, lv, prof, m) ==
    [queue |-> q, sessions |-> sess, issued |-> n, out |-> <<>>]

\* attemptPair(mode): drains the queue two entries at a time
RECURSIVE AttemptPair(_, _, _, _, _, _)
AttemptPair(q, sess, n, lv, prof, m) ==
    IF Len(q) < 2
    THEN [queue |-> q, sessions |-> sess, issued |-> n, out |-> <<>>]
    ELSE LET first == q[1]
             second == q[2]
             rest == SubSeq(q, 3, Len(q))
         IN  IF first \notin lv \/ second \notin lv
             THEN AttemptPair(rest, sess, n, lv, prof, m)
             ELSE LET sid == n + 1
                      made == [s \in DOMAIN sess \cup {sid} |->
                                 IF s = sid
                                 THEN [mode |-> m,
                                       participants |-> <<first, second>>]
                                 ELSE sess[s]]
                      r == AttemptPair(rest, made, sid, lv, prof, m)
                  IN  [r EXCEPT !.out =
                         << [to |-> first, ev |-> "match:paired",
                             sid |-> sid, mode |-> m,
                             partnerProfile |-> SanitizeProfile(prof[second]),
                             initiator |-> TRUE],
                            [to |-> second, ev |-> "match:paired",
                             sid |-> sid, mode |-> m,
                             partnerProfile |-> SanitizeProfile(prof[first]),
                             initiator |-> FALSE] >> \o @]

(* ---------------------------- end of session -------------------------- *)
\* the events endSession(sessionId, leaverId) emits, participants in order
EndSessionOut(sess, sid, leaver, lv) ==
    IF sid \notin DOMAIN sess THEN <<>>
    ELSE LET note(p) ==
                IF p \notin lv THEN <<>>
                ELSE IF p = leaver
                     THEN <<[to |-> p, ev |-> "system:session-ended",
                             sid |-> sid]>>
                     ELSE <<[to |-> p, ev |-> "system:partner-left",
                             sid |-> sid]>>
         IN  note(sess[sid].participants[1]) \o note(sess[sid].participants[2])

\* history: the session a teardown removed, with its participants
Ended(sess, sid) ==
    IF sid \in DOMAIN sess
    THEN [sid |-> sid, participants |-> sess[sid].participants]
    ELSE [sid |-> 0, participants |-> <<>>]

\* endSession marking the session instead of deleting it
EndSessionMarked(sess, sid) ==
    [s \in DOMAIN sess |->
        IF s = sid THEN [sess[s] EXCEPT !.mode = "ended"] ELSE sess[s]]

\* the registry of sessions after endSession(sessionId, leaverId)
EndSession(sess, sid) == [s \in DOMAIN sess \ {sid} |-> sess[s]]

(* ------------------------------ history ------------------------------- *)
\* run records, while it is switched on, the accepted match requests that
\* arrived for one mode since that mode's queue was empty, with no leave,
\* disconnect or request for the other mode in between, and the sessions
\* those requests created, in order.  Off: not recorded.  NoRun: no such
\* row of requests is under way.
Off == [state |-> "off"]
NoRun == [state |-> "none"]

\* the other history run can hold, switched on under SpecRepeat and
\* SpecCase: the reactions in a row (other events may come in between)
\* that one connection sent with one session id for one email and one
\* type, their number, and the spellings of the email they used
NoStreak == [state |-> "streak", n |-> 0]

RunAfterReaction(r, h, sid, target, type) ==
    IF r.state # "streak" THEN r
    ELSE IF /\ r.n > 0
            /\ r.h = h /\ r.sid = sid /\ r.type = type
            /\ r.email = ToLowerCase(target)
    THEN [r EXCEPT !.n = @ + 1, !.raws = @ \cup {target}]
    ELSE [state |-> "streak", n |-> 1, h |-> h, sid |-> sid,
          type |-> type, email |-> ToLowerCase(target), raws |-> {target}]

RunAfterRequest(r, h, m, qs, created) ==
    IF r = Off \/ r.state = "streak" THEN r
    ELSE IF r # NoRun /\ r.mode = m /\ Len(r.reqs) < FifoHandles
    THEN [r EXCEPT !.reqs = Append(@, h), !.pairs = @ \o created]
    ELSE IF qs[m] = <<>>
    THEN [state |-> "run", mode |-> m, reqs |-> <<h>>, pairs |-> created]
    ELSE NoRun

RunBroken(r) == IF r = Off \/ r.state = "streak" THEN r ELSE NoRun

(* ------------------------ messages in flight -------------------------- *)
\* attemptPair is not running (or is taken as one step of its handler)
NotDraining == [state |-> "idle"]

\* the events a handler registered with socket.on answers to
MessageOps ==
    {"profile:update", "match:request", "chat:leave", "webrtc:offer",
     "webrtc:answer", "webrtc:ice-candidate"}

\* the events of o that go to socket h, in the order they were emitted
EventsFor(o, h) == SelectSeq(o, LAMBDA e : e.to = h)

\* the tabs after the server handled the packet l of one of them and
\* emitted o: the packet has left the tab's outbox, and each event is on
\* its way to the tab whose socket it was emitted to
Exchange(cl, l, o) ==
    [c \in DOMAIN cl |->
        [cl[c] EXCEPT
            !.outbox = IF l.op \in MessageOps /\ cl[c].id = l.h
                       THEN Tail(@) ELSE @,
            !.inbox = @ \o EventsFor(o, cl[c].id)]]

(* ------------------------------- state -------------------------------- *)
Init ==
    /\ opened = 0
    /\ live = {}
    /\ profile = << >>
    /\ mode = << >>
    /\ reputations = << >>
    /\ waitingQueues = [m \in Modes |-> <<>>]
    /\ sessions = << >>
    /\ issued = 0
    /\ emailToSockets = << >>
    /\ out = <<>>
    /\ last = [op |-> "start", h |-> 0]
    /\ run = Off
    /\ up = TRUE
    /\ clock = 1
    /\ feedback = << >>
    /\ drain = NotDraining
    /\ client = << >>

\* io.on('connection'): a new socket, profile and mode null
Connect(maxH) ==
    /\ up
    /\ UNCHANGED <<up, clock, feedback, drain>>
    /\ opened < maxH
    /\ LET h == opened + 1
       IN  /\ opened' = h
           /\ live' = live \cup {h}
           /\ profile' = [x \in live \cup {h} |->
                            IF x = h THEN NoProfile ELSE profile[x]]
           /\ mode' = [x \in live \cup {h} |->
                         IF x = h THEN "null" ELSE mode[x]]
           /\ last' = [op |-> "connection", h |-> h]
    /\ out' = <<>>
    /\ UNCHANGED <<reputations, waitingQueues, sessions, issued,
                   emailToSockets, run>>
    /\ UNCHANGED client

\* (profile.email || ''): a payload without email reads as ''
EmailOf(p) == IF "email" \in DOMAIN p THEN p.email ELSE ""

\* socket.on('profile:update'); p is the payload, a record of the fields
\* the client sent
ProfileUpdate(h, p) ==
    /\ up
    /\ UNCHANGED <<up, clock, feedback, drain>>
    /\ h \in live
    /\ LET normalizedEmail == ToLowerCase(EmailOf(p))
           reps == TouchReputation(reputations, normalizedEmail)
           rep == GetReputation(reps, normalizedEmail)
       IN  /\ profile' = [profile EXCEPT ![h] =
                              [f \in DOMAIN p \cup {"email"} |->
                                 IF f = "email" THEN normalizedEmail
                                 ELSE p[f]]]
           /\ emailToSockets' =
                 RegisterSocketForEmail(emailToSockets, h, normalizedEmail)
           /\ reputations' = reps
           /\ out' = (IF rep.banned
                      THEN <<[to |-> h, ev |-> "system:banned", rep |-> rep]>>
                      ELSE <<>>)
                     \o <<[to |-> h, ev |-> "profile:reputation",
                           rep |-> rep]>>
    /\ last' = [op |-> "profile:update", h |-> h]
    /\ UNCHANGED <<opened, live, mode, waitingQueues, sessions, issued, run>>
    /\ client' = Exchange(client, last', out')

\* the answer to a match request without a profile, nothing at all
ProfileMissingSilent(h) == <<>>

\* socket.emit('system:error', 'Profile missing. Please log in again.')
ProfileMissing(h) == <<[to |-> h, ev |-> "system:error"]>>

\* the events of an accepted request with match:queued emitted last
RequestEventsPairedFirst(queued, paired) == paired \o <<queued>>

\* the events of an accepted request: match:queued is emitted before
\* attemptPair(mode) is called
RequestEvents(queued, paired) == <<queued>> \o paired

\* socket.on('match:request'); maxS bounds the session ids issued
MatchRequest(h, m, maxS) ==
    /\ up
    /\ UNCHANGED <<up, clock, feedback, drain>>
    /\ h \in live
    /\ last' = [op |-> "match:request", h |-> h, mode |-> m,
                 waited |-> WaitingModes(waitingQueues, h),
                 before |-> issued,
                 queue |-> IF m \in Modes
                           THEN FilterOut(waitingQueues[m], h) ELSE <<>>]
    /\ IF m \notin Modes
       THEN /\ out' = <<>>
            /\ UNCHANGED <<opened, live, profile, mode, reputations,
                           waitingQueues, sessions, issued, emailToSockets,
                           run>>
       ELSE IF profile[h] = NoProfile
       THEN /\ out' = ProfileMissing(h)
            /\ UNCHANGED <<opened, live, profile, mode, reputations,
                           waitingQueues, sessions, issued, emailToSockets,
                           run>>
       ELSE LET reps == TouchReputation(reputations, profile[h].email)
                rep == GetReputation(reps, profile[h].email)
            IN  /\ reputations' = reps
                /\ IF rep.banned
                   THEN /\ out' = <<[to |-> h, ev |-> "system:banned",
                                     rep |-> rep]>>
                        /\ UNCHANGED <<opened, live, profile, mode,
                                       waitingQueues, sessions, issued,
                                       emailToSockets, run>>
                   ELSE LET removed == RemoveFromQueues(waitingQueues, h)
                            pushed == Append(removed[m], h)
                            r == AttemptPair(pushed, sessions, issued, live,
                                             profile, m)
                        IN  /\ r.issued <= maxS
                            /\ mode' = [mode EXCEPT ![h] = m]
                            /\ waitingQueues' = [removed EXCEPT ![m] = r.queue]
                            /\ sessions' = r.sessions
                            /\ issued' = r.issued
                            /\ out' = RequestEvents(
                                         [to |-> h, ev |-> "match:queued",
                                          mode |-> m,
                                          queueLength |-> Len(pushed)],
                                         r.out)
                            /\ run' = RunAfterRequest(run, h, m,
                                         waitingQueues,
                                         [i \in 1..(r.issued - issued) |->
                                            r.sessions[issued + i].participants])
                            /\ UNCHANGED <<opened, live, profile,
                                           emailToSockets>>
    /\ client' = Exchange(client, last', out')

\* a timestamp field the sending client put into the payload, or none
NoStamp == [given |-> FALSE]
Forged(t) == [given |-> TRUE, at |-> t]
\* what the client may send as timestamp: nothing, or a time before the
\* server started
ClientStamps == {NoStamp, Forged(0)}

\* the timestamp taken from the payload when it has one
StampTrusting(now, stamp) == IF stamp.given THEN stamp.at ELSE now

\* timestamp: Date.now(); the handler destructures sessionId, body and
\* from, so a timestamp of the payload is never read
Stamp(now, stamp) == now

\* socket.on('chat:text:message'); stamp is the payload's own timestamp,
\* wait the time that passes between the arrival of the packet and the
\* handler's call of Date.now(), maxC bounds the clock
ChatTextMessage(h, sid, body, stamp, wait, maxC) ==
    /\ up
    /\ UNCHANGED <<up, feedback, drain>>
    /\ h \in live
    /\ clock + wait <= maxC
    /\ clock' = clock + wait
    /\ last' = [op |-> "chat:text:message", h |-> h, sid |-> sid,
                 payload |-> body, stamp |-> stamp, received |-> clock,
                 now |-> clock + wait]
    /\ out' = IF sid = 0 \/ body = "" THEN <<>>
              ELSE IF sid \notin DOMAIN sessions THEN <<>>
              ELSE IF h \notin SeqToSet(sessions[sid].participants) THEN <<>>
              ELSE LET targetId == PeerOf(sessions[sid].participants, h)
                   IN  IF targetId = 0 THEN <<>>
                       ELSE EmitTo(live, [to |-> targetId,
                                          ev |-> "chat:text:message",
                                          sid |-> sid, body |-> body,
                                          timestamp |->
                                             Stamp(clock + wait, stamp)])
    /\ UNCHANGED <<opened, live, profile, mode, reputations, waitingQueues,
                   sessions, issued, emailToSockets, run>>
    /\ UNCHANGED client

\* time passes on the server between two events
Tick(maxC) ==
    /\ up
    /\ clock < maxC
    /\ clock' = clock + 1
    /\ UNCHANGED <<opened, live, profile, mode, reputations, waitingQueues,
                   sessions, issued, emailToSockets, out, last, run, up,
                   feedback, drain>>
    /\ UNCHANGED client

\* the events relayToSessionPeer(sessionId, senderId, event, payload) emits
RelayToSessionPeer(sess, lv, sid, senderId, event, payload) ==
    IF sid \notin DOMAIN sess THEN <<>>
    ELSE IF senderId \notin SeqToSet(sess[sid].participants) THEN <<>>
    ELSE LET targetId == PeerOf(sess[sid].participants, senderId)
         IN  IF targetId = 0 THEN <<>>
             ELSE EmitTo(lv, [to |-> targetId, ev |-> event, sid |-> sid,
                              payload |-> payload])

\* socket.on('webrtc:offer'), ('webrtc:answer'), ('webrtc:ice-candidate')
Signal(h, event, sid, payload) ==
    /\ up
    /\ UNCHANGED <<up, clock, feedback, drain>>
    /\ h \in live
    /\ last' = [op |-> event, h |-> h, sid |-> sid, payload |-> payload]
    /\ out' = IF sid = 0 \/ payload = "missing" THEN <<>>
              ELSE RelayToSessionPeer(sessions, live, sid, h, event, payload)
    /\ UNCHANGED <<opened, live, profile, mode, reputations, waitingQueues,
                   sessions, issued, emailToSockets, run>>
    /\ client' = Exchange(client, last', out')

\* socket.on('chat:leave')
ChatLeave(h, sid) ==
    /\ up
    /\ UNCHANGED <<up, clock, feedback, drain>>
    /\ h \in live
    /\ LET target == IF sid # 0 /\ sid \in DOMAIN sessions THEN sid
                     ELSE FindSessionBySocket(sessions, h)
       IN  /\ sessions' = EndSession(sessions, target)
           /\ out' = EndSessionOut(sessions, target, h, live)
           /\ last' = [op |-> "chat:leave", h |-> h, sid |-> sid,
                        ended |-> Ended(sessions, target)]
    /\ waitingQueues' = RemoveFromQueues(waitingQueues, h)
    /\ run' = RunBroken(run)
    /\ UNCHANGED <<opened, live, profile, mode, reputations, issued,
                   emailToSockets>>
    /\ client' = Exchange(client, last', out')

\* the 'profile:reputation' broadcast of io.emit, one event per socket
Broadcast(lv, email, rep) ==
    LET RECURSIVE each(_)
        each(S) == IF S = {} THEN <<>>
                   ELSE LET x == CHOOSE y \in S : \A z \in S : y <= z
                        IN  <<[to |-> x, ev |-> "profile:reputation",
                               email |-> email, rep |-> rep]>>
                            \o each(S \ {x})
    IN  each(lv)

\* the ban notice sent to one registered socket only
BanNoticesFirst(reg, lv, email, rep) ==
    IF email \in DOMAIN reg
    THEN LET x == CHOOSE y \in reg[email] : \A z \in reg[email] : y <= z
         IN  EmitTo(lv, [to |-> x, ev |-> "system:banned", rep |-> rep])
    ELSE <<>>

\* the 'system:banned' notices to the sockets registered for the email
BanNotices(reg, lv, email, rep) ==
    LET RECURSIVE each(_)
        each(S) == IF S = {} THEN <<>>
                   ELSE LET x == CHOOSE y \in S : \A z \in S : y <= z
                        IN  EmitTo(lv, [to |-> x, ev |-> "system:banned",
                                        rep |-> rep])
                            \o each(S \ {x})
    IN  IF email \in DOMAIN reg THEN each(reg[email]) ELSE <<>>

\* socket.on('profile:reaction'); the handler reads target and type of the
\* payload and not its sessionId; capL, capD, capR bound the counters
ProfileReaction(h, sid, target, type, capL, capD, capR) ==
    /\ up
    /\ UNCHANGED <<up, clock, feedback, drain>>
    /\ h \in live
    /\ last' = [op |-> "profile:reaction", h |-> h, sid |-> sid,
                 target |-> ToLowerCase(target), type |-> type,
                 before |-> GetReputation(reputations, ToLowerCase(target))]
    /\ IF target = "" \/ type = ""
       THEN /\ out' = <<>>
            /\ UNCHANGED <<reputations, run>>
       ELSE LET normalized == ToLowerCase(target)
                before == GetReputation(reputations, normalized)
                reps == ApplyReaction(reputations, normalized, type)
                rep == reps[normalized]
            IN  /\ type = "like" => before.likes < capL
                /\ type = "dislike" => before.dislikes < capD
                /\ type = "report" => before.reports < capR
                /\ reputations' = reps
                /\ run' = RunAfterReaction(run, h, sid, target, type)
                /\ out' = Broadcast(live, normalized, rep)
                          \o (IF rep.banned
                              THEN BanNotices(emailToSockets, live,
                                              normalized, rep)
                              ELSE <<>>)
    /\ UNCHANGED <<opened, live, profile, mode, waitingQueues, sessions,
                   issued, emailToSockets>>
    /\ UNCHANGED client

\* socket.on('disconnect'): the transport has already dropped the socket
\* from io.sockets.sockets when the handler runs
Disconnect(h) ==
    /\ up
    /\ UNCHANGED <<up, clock, feedback, drain>>
    /\ h \in live
    /\ live' = live \ {h}
    /\ profile' = [x \in live \ {h} |-> profile[x]]
    /\ mode' = [x \in live \ {h} |-> mode[x]]
    /\ waitingQueues' = RemoveFromQueues(waitingQueues, h)
    /\ LET existing == FindSessionBySocket(sessions, h)
       IN  /\ sessions' = EndSession(sessions, existing)
           /\ out' = EndSessionOut(sessions, existing, h, live \ {h})
           /\ last' = [op |-> "disconnect", h |-> h,
                        ended |-> Ended(sessions, existing)]
    /\ emailToSockets' = UnregisterSocket(emailToSockets, h)
    /\ run' = RunBroken(run)
    /\ UNCHANGED <<opened, reputations, issued>>
    /\ UNCHANGED client

\* a client emits one of the events whose handler takes ({ ... }) with no
\* payload: destructuring undefined throws a TypeError inside the listener;
\* no listener has a try/catch and the process has no uncaughtException
\* handler, so node exits and every table and connection is gone
NoPayload(h, event) ==
    /\ up
    /\ h \in live
    /\ up' = FALSE
    /\ live' = {}
    /\ profile' = << >>
    /\ mode' = << >>
    /\ reputations' = << >>
    /\ waitingQueues' = [m \in Modes |-> <<>>]
    /\ sessions' = << >>
    /\ emailToSockets' = << >>
    /\ out' = <<>>
    /\ last' = [op |-> "no payload", h |-> h, event |-> event]
    /\ UNCHANGED <<opened, issued, run, clock, feedback, drain>>
    /\ UNCHANGED client

(* --------------------- attemptPair, step by step ---------------------- *)
\* The handlers above take attemptPair as part of one step.  Here its
\* while loop is a process of its own: the match:request handler runs up to
\* the call, each pass through the loop body is a step, and the handler
\* returns when the loop condition fails.  Node runs a handler to its end
\* before it takes the next event, so nothing else happens in between.

\* the queue after one queue.shift() only
ShiftOne(q) == SubSeq(q, 2, Len(q))

\* the queue after const first = queue.shift(); const second = queue.shift()
ShiftTwo(q) == SubSeq(q, 3, Len(q))

\* socket.on('match:request') up to its call of attemptPair(mode); maxS
\* bounds the session ids issued
MatchRequestEnter(h, m, maxS) ==
    /\ up
    /\ drain = NotDraining
    /\ h \in live
    /\ last' = [op |-> "match:request", h |-> h, mode |-> m,
                 waited |-> WaitingModes(waitingQueues, h),
                 before |-> issued,
                 queue |-> IF m \in Modes
                           THEN FilterOut(waitingQueues[m], h) ELSE <<>>]
    /\ IF m \notin Modes
       THEN /\ out' = <<>>
            /\ UNCHANGED <<mode, reputations, waitingQueues, drain>>
       ELSE IF profile[h] = NoProfile
       THEN /\ out' = ProfileMissing(h)
            /\ UNCHANGED <<mode, reputations, waitingQueues, drain>>
       ELSE LET reps == TouchReputation(reputations, profile[h].email)
                rep == GetReputation(reps, profile[h].email)
            IN  /\ reputations' = reps
                /\ IF rep.banned
                   THEN /\ out' = <<[to |-> h, ev |-> "system:banned",
                                     rep |-> rep]>>
                        /\ UNCHANGED <<mode, waitingQueues, drain>>
                   ELSE LET removed == RemoveFromQueues(waitingQueues, h)
                            pushed == Append(removed[m], h)
                        IN  /\ issued + (Len(pushed) \div 2) <= maxS
                            /\ mode' = [mode EXCEPT ![h] = m]
                            /\ waitingQueues' = [removed EXCEPT ![m] = pushed]
                            /\ out' = <<[to |-> h, ev |-> "match:queued",
                                         mode |-> m,
                                         queueLength |-> Len(pushed)]>>
                            /\ drain' = [state |-> "loop", mode |-> m,
                                         n |-> Len(pushed), iterations |-> 0]
    /\ UNCHANGED <<opened, live, profile, sessions, issued, emailToSockets,
                   run, up, clock, feedback, client>>

\* one pass through the body of while (queue.length >= 2)
AttemptPairIteration ==
    /\ up
    /\ drain.state = "loop"
    /\ LET m == drain.mode
           queue == waitingQueues[m]
       IN  /\ Len(queue) >= 2
           /\ waitingQueues' = [waitingQueues EXCEPT ![m] = ShiftTwo(queue)]
           /\ LET first == queue[1]
                  second == queue[2]
                  sid == issued + 1
              IN  IF first \notin live \/ second \notin live
                  THEN UNCHANGED <<sessions, issued, out>>
                  ELSE /\ sessions' =
                            [s \in DOMAIN sessions \cup {sid} |->
                               IF s = sid
                               THEN [mode |-> m,
                                     participants |-> <<first, second>>]
                               ELSE sessions[s]]
                       /\ issued' = sid
                       /\ out' = out \o
                            << [to |-> first, ev |-> "match:paired",
                                sid |-> sid, mode |-> m,
                                partnerProfile |->
                                   SanitizeProfile(profile[second]),
                                initiator |-> TRUE],
                               [to |-> second, ev |-> "match:paired",
                                sid |-> sid, mode |-> m,
                                partnerProfile |->
                                   SanitizeProfile(profile[first]),
                                initiator |-> FALSE] >>
    /\ drain' = [drain EXCEPT !.iterations = @ + 1]
    /\ UNCHANGED <<opened, live, profile, mode, reputations, emailToSockets,
                   last, run, up, clock, feedback, client>>

\* the loop condition fails: attemptPair and the handler return
AttemptPairExit ==
    /\ up
    /\ drain.state = "loop"
    /\ Len(waitingQueues[drain.mode]) < 2
    /\ drain' = NotDraining
    /\ last' = [f \in DOMAIN last \cup {"n", "iterations"} |->
                  IF f = "n" THEN drain.n
                  ELSE IF f = "iterations" THEN drain.iterations
                  ELSE last[f]]
    /\ UNCHANGED <<opened, live, profile, mode, reputations, waitingQueues,
                   sessions, issued, emailToSockets, out, run, up, clock,
                   feedback, client>>

(* ------------------------- client: FeedbackContext -------------------- *)
\* the updater of recordReaction with > for >= in the threshold tests
RecordedRecordLate(p, type) ==
    LET next == IF type = "like" THEN [p EXCEPT !.likes = @ + 1]
                ELSE IF type = "dislike" THEN [p EXCEPT !.dislikes = @ + 1]
                ELSE [p EXCEPT !.reports = @ + 1]
    IN  IF \/ next.reports > ClientReportThreshold
           \/ next.dislikes > ClientDislikeThreshold
        THEN [next EXCEPT !.banned = TRUE]
        ELSE next

\* the record the updater of recordReaction computes from the record it
\* found: like and dislike raise their counter, any other type the reports
RecordedRecord(p, type) ==
    LET next == IF type = "like" THEN [p EXCEPT !.likes = @ + 1]
                ELSE IF type = "dislike" THEN [p EXCEPT !.dislikes = @ + 1]
                ELSE [p EXCEPT !.reports = @ + 1]
    IN  IF \/ next.reports >= ClientReportThreshold
           \/ next.dislikes >= ClientDislikeThreshold
        THEN [next EXCEPT !.banned = TRUE]
        ELSE next

\* getReputationFor(email): reputations[email] ?? defaultReputation
GetReputationFor(current, email) ==
    IF email \in DOMAIN current THEN current[email] ELSE ZeroRep

\* the reputations state after recordReaction(email, type)
RecordReaction(current, email, type) ==
    [e \in DOMAIN current \cup {email} |->
        IF e = email
        THEN RecordedRecord(GetReputationFor(current, email), type)
        ELSE current[e]]

\* one reaction applied on both sides: recordReaction in the client and
\* applyReaction in the server; capL, capD, capR bound the counters
MirroredReaction(email, type, capL, capD, capR) ==
    /\ up
    /\ LET before == GetReputation(reputations, email)
       IN  /\ type = "like" => before.likes < capL
           /\ type = "dislike" => before.dislikes < capD
           /\ type = "report" => before.reports < capR
    /\ feedback' = RecordReaction(feedback, email, type)
    /\ reputations' = ApplyReaction(reputations, email, type)
    /\ last' = [op |-> "reaction on both sides", h |-> 0,
                 target |-> email, type |-> type]
    /\ out' = <<>>
    /\ UNCHANGED <<opened, live, profile, mode, waitingQueues, sessions,
                   issued, emailToSockets, run, up, clock, drain>>
    /\ UNCHANGED client

\* app.get('/reputation/:email')
HttpReputation(email) ==
    /\ up
    /\ UNCHANGED <<up, clock, feedback, drain>>
    /\ reputations' = TouchReputation(reputations, ToLowerCase(email))
    /\ last' = [op |-> "GET /reputation", h |-> 0]
    /\ out' = <<>>
    /\ UNCHANGED <<opened, live, profile, mode, waitingQueues, sessions,
                   issued, emailToSockets, run>>
    /\ UNCHANGED client

(* --------------------------- client: the tab -------------------------- *)
\* A tab is one loaded page of the web client: SocketProvider, App and the
\* page that is mounted.  What it emits waits in its outbox until the
\* server's handler runs; what the server emits to its socket waits in
\* its inbox until the page's listener runs; both keep their order.

server == <<opened, live, profile, mode, reputations, waitingQueues,
            sessions, issued, emailToSockets, out, last, run, up, clock,
            feedback, drain>>

\* a session id made up by the page itself ('LOCAL-...', 'VC-...'); the
\* server's ids are positive, 0 is the empty string
LocalId == -1

\* the tab after load: the socket connecting, nobody logged in, the login
\* page.  profiled, initiated and offered are history: the socket the
\* profile went out on, the sessions the tab was paired into as the
\* initiator, the sessions it got an offer for while they were current.
FreshTab ==
    [sock |-> "connecting", id |-> 0, user |-> FALSE, page |-> "login",
     status |-> "none", sessionId |-> 0, initiate |-> FALSE,
     timer |-> FALSE, outbox |-> <<>>, inbox |-> <<>>, profiled |-> 0,
     initiated |-> {}, offered |-> {}]

\* the profile handleSubmit builds: trimmed name, lower-cased email,
\* the selected interests
TabProfile == [name |-> "Ann", email |-> "a@wisc.edu", interests |-> <<>>]

\* SocketProvider.send: emits if the socket is connected, else skips
Send(t, msg) ==
    IF t.sock = "connected" THEN [t EXCEPT !.outbox = Append(@, msg)] ELSE t

\* realtimeReady = socketStatus === 'connected' && !!socket
RealtimeReady(t) == t.sock = "connected"

\* TextChatPage.startMatch: requestRealtimeMatch or requestLocalMatch
StartMatch(t) ==
    IF RealtimeReady(t)
    THEN Send([t EXCEPT !.status = "matching"],
              [ev |-> "match:request", mode |-> "text"])
    ELSE [t EXCEPT !.status = "matching", !.sessionId = LocalId,
                   !.timer = TRUE]

\* VideoChatPage: the two effects that depend on realtimeReady
VideoEffects(t) ==
    IF RealtimeReady(t)
    THEN Send([t EXCEPT !.timer = FALSE],
              [ev |-> "match:request", mode |-> "video"])
    ELSE [t EXCEPT !.timer = TRUE]

\* the effects of the mounted page that run when realtimeReady changes,
\* and when the page mounts
PageEffects(t) ==
    IF t.page = "text" THEN StartMatch(t)
    ELSE IF t.page = "video" THEN VideoEffects(t)
    ELSE t

\* the page of mode m mounts: its useState initial values, then its effects
Mount(t, m) ==
    PageEffects([t EXCEPT !.page = m, !.status = "matching",
                          !.sessionId = IF m = "text" THEN 0 ELSE LocalId,
                          !.initiate = FALSE, !.timer = FALSE])

\* the page unmounts: its listeners are off, its timer is cleared
Unmount(t, to) ==
    [t EXCEPT !.page = to, !.status = "none", !.sessionId = 0,
              !.initiate = FALSE, !.timer = FALSE]

\* TextChatPage: handlePaired, handlePartnerLeft, handleQueued (the
\* listener of chat:text:message changes the message list only)
TextPageEvent(t, e) ==
    IF e.ev = "match:paired"
    THEN IF e.mode # "text" THEN t
         ELSE [t EXCEPT !.status = "connected", !.sessionId = e.sid]
    ELSE IF e.ev \in {"system:partner-left", "system:session-ended"}
    THEN IF e.sid # t.sessionId THEN t
         ELSE [t EXCEPT !.status = "matching"]
    ELSE IF e.ev = "match:queued"
    THEN IF e.mode = "text" THEN [t EXCEPT !.status = "matching"] ELSE t
    ELSE t

\* VideoChatPage.handleOffer
VideoOffer(t, e) ==
    IF e.sid = 0 \/ e.sid # t.sessionId THEN t
    ELSE Send([t EXCEPT !.offered = @ \cup {e.sid}],
              [ev |-> "webrtc:answer", sid |-> e.sid])

\* handlePaired of the video page starting the call whatever the flag
VideoPairedCalls(t, e) ==
    IF e.mode # "video" THEN t
    ELSE Send([t EXCEPT !.sessionId = e.sid, !.status = "connected",
                        !.initiate = TRUE,
                        !.initiated = IF e.initiator THEN @ \cup {e.sid}
                                      ELSE @],
              [ev |-> "webrtc:offer", sid |-> e.sid])

\* VideoChatPage.handlePaired and the startOffer effect it triggers: the
\* effect runs when shouldInitiateCall, status and sessionId are set
VideoPaired(t, e) ==
    IF e.mode # "video" THEN t
    ELSE LET u == [t EXCEPT !.sessionId = e.sid, !.status = "connected",
                            !.initiate = e.initiator,
                            !.initiated = IF e.initiator THEN @ \cup {e.sid}
                                          ELSE @]
         IN  IF e.initiator
             THEN Send(u, [ev |-> "webrtc:offer", sid |-> e.sid])
             ELSE u

\* VideoChatPage.handlePartnerLeft (also the listener of session-ended)
VideoPartnerLeft(t, e) ==
    IF e.sid = 0 \/ e.sid # t.sessionId THEN t
    ELSE [t EXCEPT !.status = "matching", !.initiate = FALSE]

\* VideoChatPage: the listeners of the socket (handleAnswer only feeds the
\* peer connection; ICE candidates are not modelled)
VideoPageEvent(t, e) ==
    IF e.ev = "match:paired" THEN VideoPaired(t, e)
    ELSE IF e.ev \in {"system:partner-left", "system:session-ended"}
    THEN VideoPartnerLeft(t, e)
    ELSE IF e.ev = "webrtc:offer" THEN VideoOffer(t, e)
    ELSE t

\* the listener of the mounted page for the event e; the login and the
\* mode page have none
PageEvent(t, e) ==
    IF t.page = "text" THEN TextPageEvent(t, e)
    ELSE IF t.page = "video" THEN VideoPageEvent(t, e)
    ELSE t

\* the tab after the listeners took the events evs, in order
RECURSIVE AfterEvents(_, _)
AfterEvents(t, evs) ==
    IF evs = <<>> THEN t ELSE AfterEvents(PageEvent(t, Head(evs)), Tail(evs))

\* no tab has more than k packets waiting in either direction
Within(cl, k) ==
    \A c \in DOMAIN cl : Len(cl[c].outbox) <= k /\ Len(cl[c].inbox) <= k

\* the tab c has emitted ev and the server has not handled it yet
Sends(c, ev) ==
    /\ client[c].outbox # <<>>
    /\ Head(client[c].outbox).ev = ev
    /\ client[c].id \in live

Claimed(h) == \E c \in DOMAIN client : client[c].id = h

\* instance.on('connect'): the connection the server accepted is the
\* tab's socket; realtimeReady turns true
TabConnected(c, k) ==
    /\ up
    /\ client[c].sock # "connected"
    /\ \E h \in live :
          /\ ~Claimed(h)
          /\ client' = [client EXCEPT ![c] =
                PageEffects([@ EXCEPT !.sock = "connected", !.id = h])]
    /\ Within(client', k)
    /\ UNCHANGED server

\* instance.on('disconnect'): the transport is gone and the packets in
\* flight with it; realtimeReady turns false.  socket.io-client then
\* connects again, as a new connection.
TabDisconnected(c) ==
    /\ up
    /\ client[c].sock = "connected"
    /\ client[c].id \notin live
    /\ client' = [client EXCEPT ![c] =
          PageEffects([@ EXCEPT !.sock = "disconnected", !.id = 0,
                                !.outbox = <<>>, !.inbox = <<>>])]
    /\ UNCHANGED server

\* LoginPage.handleSubmit with a valid name and email:
\* App.handleAuthenticated, then navigate('/mode')
TabLogin(c, k) ==
    /\ up
    /\ client[c].page = "login"
    /\ LET t == client[c]
       IN  client' = [client EXCEPT ![c] =
              Send([t EXCEPT !.user = TRUE, !.page = "mode",
                             !.profiled = IF t.sock = "connected" THEN t.id
                                          ELSE t.profiled],
                   [ev |-> "profile:update", profile |-> TabProfile])]
    /\ Within(client', k)
    /\ UNCHANGED server

\* ModeSelectionPage.handleSelect: the chat page of the mode mounts
TabSelectMode(c, m, k) ==
    /\ up
    /\ client[c].page = "mode"
    /\ client[c].user
    /\ client' = [client EXCEPT ![c] = Mount(@, m)]
    /\ Within(client', k)
    /\ UNCHANGED server

\* the 'find next' button: startMatch on the text page, a bare
\* match:request on the video page
TabFindNext(c, k) ==
    /\ up
    /\ client[c].page \in Modes
    /\ client' = [client EXCEPT ![c] =
          IF @.page = "text" THEN StartMatch(@)
          ELSE Send(@, [ev |-> "match:request", mode |-> "video"])]
    /\ Within(client', k)
    /\ UNCHANGED server

\* leaveChat of either page, then back to the mode page
TabLeave(c, k) ==
    /\ up
    /\ client[c].page \in Modes
    /\ client' = [client EXCEPT ![c] =
          Unmount(IF RealtimeReady(@) /\ @.sessionId # 0
                  THEN Send(@, [ev |-> "chat:leave", sid |-> @.sessionId])
                  ELSE @, "mode")]
    /\ Within(client', k)
    /\ UNCHANGED server

\* App.handleLogout: user is null, every route redirects to the login page
TabLogout(c) ==
    /\ up
    /\ client[c].user
    /\ client' = [client EXCEPT ![c] = Unmount([@ EXCEPT !.user = FALSE],
                                               "login")]
    /\ UNCHANGED server

\* the timer of the local fallback fires: the page shows a made-up partner
TabTimer(c) ==
    /\ up
    /\ client[c].timer
    /\ client' = [client EXCEPT ![c] =
          [@ EXCEPT !.timer = FALSE, !.status = "connected"]]
    /\ UNCHANGED server

\* the next event from the server reaches the tab's socket
TabReceive(c, k) ==
    /\ up
    /\ client[c].inbox # <<>>
    /\ client' = [client EXCEPT ![c] =
          PageEvent([@ EXCEPT !.inbox = Tail(@)], Head(@.inbox))]
    /\ Within(client', k)
    /\ UNCHANGED server

(* --------------------------- specifications --------------------------- *)
\* Matching, teardown and the ban gate: connections of one user (the email
\* in both spellings), reports as the reactions that ban.  Relays change no
\* state of the server and are specified under SpecWide.
Next ==
    \/ Connect(MaxHandles)
    \/ \E h \in live, e \in OneUser : ProfileUpdate(h, Login(e))
    \/ \E h \in live, m \in Modes \cup {""} : MatchRequest(h, m, MaxSessions)
    \/ \E h \in live, s \in SidInputs(MaxSessions) : ChatLeave(h, s)
    \/ \E h \in live, t \in OneUser :
          ProfileReaction(h, 0, t, "report", MaxLikes, MaxDislikes,
                          MaxReports)
    \/ \E h \in live : Disconnect(h)

Spec == Init /\ [][Next]_vars

\* Matching, relay and teardown for WideHandles connections, without
\* reactions: no record is ever banned here.
NextWide ==
    \/ Connect(WideHandles)
    \/ \E h \in live : ProfileUpdate(h, Login("a@wisc.edu"))
    \/ \E h \in live, m \in Modes : MatchRequest(h, m, WideSessions)
    \/ \E h \in live, s \in SidInputs(WideSessions) : ChatTextMessage(h, s, "hi", NoStamp, 0, MaxClock)
    \/ \E h \in live, s \in SidInputs(WideSessions) : Signal(h, "webrtc:offer", s, "sdp")
    \/ \E h \in live, s \in SidInputs(WideSessions) : ChatLeave(h, s)
    \/ \E h \in live : Disconnect(h)

SpecWide == Init /\ [][NextWide]_vars

\* The reputation ledger and the identity registry: every reaction type,
\* the dislikes counter up to LedgerDislikes.
NextLedger ==
    \/ Connect(MaxHandles)
    \/ \E h \in live, e \in OneUser : ProfileUpdate(h, Login(e))
    \/ \E h \in live, t \in OneUser \cup {""}, ty \in TypeInputs :
          ProfileReaction(h, 0, t, ty, MaxLikes, LedgerDislikes, MaxReports)
    \/ \E h \in live : Disconnect(h)
    \/ \E e \in OneUser : HttpReputation(e)

SpecLedger == Init /\ [][NextLedger]_vars
\* Matching and teardown from the state in which FifoHandles sockets are
\* connected and have sent their profile; the order of the accepted
\* requests is recorded in run.  All requests are for the text lounge
\* (the handler treats both keys of waitingQueues alike).
InitFifo ==
    /\ opened = FifoHandles
    /\ live = 1..FifoHandles
    /\ profile = [h \in 1..FifoHandles |-> [email |-> "a@wisc.edu"]]
    /\ mode = [h \in 1..FifoHandles |-> "null"]
    /\ reputations = [e \in {"a@wisc.edu"} |-> ZeroRep]
    /\ waitingQueues = [m \in Modes |-> <<>>]
    /\ sessions = << >>
    /\ issued = 0
    /\ emailToSockets = [e \in {"a@wisc.edu"} |-> 1..FifoHandles]
    /\ out = <<>>
    /\ last = [op |-> "start", h |-> 0]
    /\ run = NoRun
    /\ up = TRUE
    /\ clock = 1
    /\ feedback = << >>
    /\ drain = NotDraining
    /\ client = << >>

NextFifo ==
    \/ \E h \in live : MatchRequest(h, "text", FifoSessions)
    \/ \E h \in live : ChatLeave(h, 0)
    \/ \E h \in live : Disconnect(h)

SpecFifo == InitFifo /\ [][NextFifo]_vars

\* Pairing of two users whose profiles differ, and the identity registry
\* when a connection changes its profile; sessions end by disconnect.
NextPair ==
    \/ Connect(PairHandles)
    \/ \E h \in live, p \in ProfilePayloads : ProfileUpdate(h, p)
    \/ \E h \in live, m \in Modes : MatchRequest(h, m, PairSessions)
    \/ \E h \in live : Disconnect(h)

SpecPair == Init /\ [][NextPair]_vars

\* Every handler with well-formed, incomplete and missing payloads, for
\* connections of one user.
NextInput ==
    \/ Connect(InputHandles)
    \/ \E h \in live, p \in {Login("a@wisc.edu"), NoFields} :
          ProfileUpdate(h, p)
    \/ \E h \in live, m \in ModeInputs : MatchRequest(h, m, InputSessions)
    \/ \E h \in live, s \in SidInputs(InputSessions), b \in Bodies :
          ChatTextMessage(h, s, b, NoStamp, 0, MaxClock)
    \/ \E h \in live, ev \in SignalEvents, s \in SidInputs(InputSessions),
          pl \in Payloads : Signal(h, ev, s, pl)
    \/ \E h \in live, s \in SidInputs(InputSessions) : ChatLeave(h, s)
    \/ \E h \in live, s \in SidInputs(InputSessions),
          t \in {"", "a@wisc.edu"}, ty \in {"like", "", "wave"} :
          ProfileReaction(h, s, t, ty, InputReactions, InputReactions,
                          InputReactions)
    \/ \E h \in live, ev \in DestructuringEvents : NoPayload(h, ev)
    \/ \E h \in live : Disconnect(h)

SpecInput == Init /\ [][NextInput]_vars

\* Chat relay with the server clock running: payloads with and without a
\* timestamp of their own, time passing between and within events.
NextClock ==
    \/ Connect(ClockHandles)
    \/ \E h \in live : ProfileUpdate(h, Login("a@wisc.edu"))
    \/ \E h \in live : MatchRequest(h, "text", ClockSessions)
    \/ \E h \in live, s \in SidInputs(ClockSessions), st \in ClientStamps,
          w \in 0..1 : ChatTextMessage(h, s, "hi", st, w, MaxClock)
    \/ Tick(MaxClock)
    \/ \E h \in live : Disconnect(h)

SpecClock == Init /\ [][NextClock]_vars

\* The state after construction, with the history of reactions on.
InitHistory ==
    /\ opened = 0
    /\ live = {}
    /\ profile = << >>
    /\ mode = << >>
    /\ reputations = << >>
    /\ waitingQueues = [m \in Modes |-> <<>>]
    /\ sessions = << >>
    /\ issued = 0
    /\ emailToSockets = << >>
    /\ out = <<>>
    /\ last = [op |-> "start", h |-> 0]
    /\ run = NoStreak
    /\ up = TRUE
    /\ clock = 1
    /\ feedback = << >>
    /\ drain = NotDraining
    /\ client = << >>

\* Repeated reactions: dislikes and reports on one email, each sent with
\* the session id 1, up to the thresholds.
NextRepeat ==
    \/ Connect(RepeatHandles)
    \/ \E h \in live : ProfileUpdate(h, Login("a@wisc.edu"))
    \/ \E h \in live, ty \in {"dislike", "report"} :
          ProfileReaction(h, 1, "a@wisc.edu", ty, MaxLikes, LedgerDislikes,
                          MaxReports)
    \/ \E h \in live : Disconnect(h)

SpecRepeat == InitHistory /\ [][NextRepeat]_vars

\* Letter case: every profile is sent with the email in the spelling
\* A@wisc.edu, reports name the email in either spelling.
NextCase ==
    \/ Connect(CaseHandles)
    \/ \E h \in live : ProfileUpdate(h, Login("A@wisc.edu"))
    \/ \E h \in live : MatchRequest(h, "text", CaseSessions)
    \/ \E h \in live, t \in OneUser :
          ProfileReaction(h, 0, t, "report", MaxLikes, MaxDislikes,
                          MaxReports)
    \/ \E h \in live : Disconnect(h)

SpecCase == InitHistory /\ [][NextCase]_vars

\* Matching and teardown alone: both lounges, requests with and without
\* a valid mode and with and without a profile, leave with and without a
\* session id; no reactions, so no record is ever banned here.
NextMatch ==
    \/ Connect(MatchHandles)
    \/ \E h \in live : ProfileUpdate(h, Login("a@wisc.edu"))
    \/ \E h \in live, m \in Modes \cup {""} :
          MatchRequest(h, m, MatchSessions)
    \/ \E h \in live, s \in SidInputs(MatchSessions) : ChatLeave(h, s)
    \/ \E h \in live : Disconnect(h)

SpecMatch == Init /\ [][NextMatch]_vars

\* The client's reputation model next to the server's ledger: the same
\* reactions, of the three types, applied to both from the empty state.
NextMirror ==
    \E e \in MirrorEmails, ty \in ReactionTypes :
        MirroredReaction(e, ty, MaxLikes, LedgerDislikes, MaxReports)

SpecMirror == Init /\ [][NextMirror]_vars

\* The identity registry alone: connections that send their profile with
\* any email, in any spelling or without one, again and again, and close.
NextRegistry ==
    \/ Connect(RegistryHandles)
    \/ \E h \in live, e \in RawEmails : ProfileUpdate(h, Login(e))
    \/ \E h \in live : Disconnect(h)

SpecRegistry == Init /\ [][NextRegistry]_vars

\* Pairing with the loop of attemptPair taken step by step: requests with
\* and without a valid mode and a profile, leave and disconnect between
\* two handlers.  The loop, once entered, is run to its end.
NextDrain ==
    \/ drain = NotDraining /\ Connect(DrainHandles)
    \/ \E h \in live :
          drain = NotDraining /\ ProfileUpdate(h, Login("a@wisc.edu"))
    \/ \E h \in live, m \in Modes \cup {""} :
          MatchRequestEnter(h, m, DrainSessions)
    \/ AttemptPairIteration
    \/ AttemptPairExit
    \/ \E h \in live : drain = NotDraining /\ ChatLeave(h, 0)
    \/ \E h \in live : drain = NotDraining /\ Disconnect(h)

SpecDrain ==
    /\ Init
    /\ [][NextDrain]_vars
    /\ WF_vars(AttemptPairIteration)
    /\ WF_vars(AttemptPairExit)

\* Tabs from page load on: connect, log in, choose the text lounge, leave,
\* log out; the connection drops and socket.io-client connects again.
InitLogin ==
    /\ opened = 0
    /\ live = {}
    /\ profile = << >>
    /\ mode = << >>
    /\ reputations = << >>
    /\ waitingQueues = [m \in Modes |-> <<>>]
    /\ sessions = << >>
    /\ issued = 0
    /\ emailToSockets = << >>
    /\ out = <<>>
    /\ last = [op |-> "start", h |-> 0]
    /\ run = Off
    /\ up = TRUE
    /\ clock = 1
    /\ feedback = << >>
    /\ drain = NotDraining
    /\ client = [c \in 1..LoginTabs |-> FreshTab]

\* the server accepts the connection a tab is trying to open
Accept(maxH) ==
    /\ \E c \in DOMAIN client : client[c].sock # "connected"
    /\ \A h \in live : Claimed(h)
    /\ Connect(maxH)

NextLogin ==
    \/ Accept(LoginHandles)
    \/ \E c \in DOMAIN client : TabConnected(c, LoginWire)
    \/ \E c \in DOMAIN client : TabLogin(c, LoginWire)
    \/ \E c \in DOMAIN client : TabSelectMode(c, "text", LoginWire)
    \/ \E c \in DOMAIN client : TabLeave(c, LoginWire)
    \/ \E c \in DOMAIN client : TabLogout(c)
    \/ \E c \in DOMAIN client : TabTimer(c)
    \/ \E c \in DOMAIN client : TabReceive(c, LoginWire)
    \/ \E c \in DOMAIN client :
          /\ Sends(c, "profile:update")
          /\ ProfileUpdate(client[c].id, Head(client[c].outbox).profile)
          /\ Within(client', LoginWire)
    \/ \E c \in DOMAIN client :
          /\ Sends(c, "match:request")
          /\ MatchRequest(client[c].id, Head(client[c].outbox).mode,
                          LoginSessions)
          /\ Within(client', LoginWire)
    \/ \E c \in DOMAIN client :
          /\ Sends(c, "chat:leave")
          /\ ChatLeave(client[c].id, Head(client[c].outbox).sid)
          /\ Within(client', LoginWire)
    \/ \E h \in live : Disconnect(h)
    \/ \E c \in DOMAIN client : TabDisconnected(c)

SpecLogin == InitLogin /\ [][NextLogin]_vars

\* the state when n tabs have connected and logged in, the server has
\* stored their profiles and every tab shows the mode page
Lounge(n) ==
    /\ opened = n
    /\ live = 1..n
    /\ profile = [h \in 1..n |-> TabProfile]
    /\ mode = [h \in 1..n |-> "null"]
    /\ reputations = [e \in {TabProfile.email} |-> ZeroRep]
    /\ waitingQueues = [m \in Modes |-> <<>>]
    /\ sessions = << >>
    /\ issued = 0
    /\ emailToSockets = [e \in {TabProfile.email} |-> 1..n]
    /\ out = <<>>
    /\ last = [op |-> "start", h |-> 0]
    /\ run = Off
    /\ up = TRUE
    /\ clock = 1
    /\ feedback = << >>
    /\ drain = NotDraining
    /\ client = [c \in 1..n |->
                   [FreshTab EXCEPT !.sock = "connected", !.id = c,
                                    !.user = TRUE, !.page = "mode",
                                    !.profiled = c]]

\* The text lounge seen from the tabs: logged-in tabs on steady
\* connections enter the lounge, ask for the next partner and leave.
InitLounge == Lounge(LoungeTabs)

NextLounge ==
    \/ \E c \in DOMAIN client : TabSelectMode(c, "text", LoungeWire)
    \/ \E c \in DOMAIN client : TabFindNext(c, LoungeWire)
    \/ \E c \in DOMAIN client : TabLeave(c, LoungeWire)
    \/ \E c \in DOMAIN client : TabReceive(c, LoungeWire)
    \/ \E c \in DOMAIN client :
          /\ Sends(c, "match:request")
          /\ MatchRequest(client[c].id, Head(client[c].outbox).mode,
                          LoungeSessions)
          /\ Within(client', LoungeWire)
    \/ \E c \in DOMAIN client :
          /\ Sends(c, "chat:leave")
          /\ ChatLeave(client[c].id, Head(client[c].outbox).sid)
          /\ Within(client', LoungeWire)

SpecLounge == InitLounge /\ [][NextLounge]_vars

\* The video lounge seen from the tabs, with the signaling of the call.
InitVideo == Lounge(VideoTabs)

NextVideo ==
    \/ \E c \in DOMAIN client : TabSelectMode(c, "video", VideoWire)
    \/ \E c \in DOMAIN client : TabFindNext(c, VideoWire)
    \/ \E c \in DOMAIN client : TabLeave(c, VideoWire)
    \/ \E c \in DOMAIN client : TabReceive(c, VideoWire)
    \/ \E c \in DOMAIN client :
          /\ Sends(c, "match:request")
          /\ MatchRequest(client[c].id, Head(client[c].outbox).mode,
                          VideoSessions)
          /\ Within(client', VideoWire)
    \/ \E c \in DOMAIN client, ev \in {"webrtc:offer", "webrtc:answer"} :
          /\ Sends(c, ev)
          /\ Signal(client[c].id, ev, Head(client[c].outbox).sid, "sdp")
          /\ Within(client', VideoWire)
    \/ \E c \in DOMAIN client :
          /\ Sends(c, "chat:leave")
          /\ ChatLeave(client[c].id, Head(client[c].outbox).sid)
          /\ Within(client', VideoWire)

SpecVideo == InitVideo /\ [][NextVideo]_vars

(* ----------------------------- properties ------------------------------ *)
Occurrences(q, h) == Cardinality({i \in 1..Len(q) : q[i] = h})

Accepted == /\ last.op = "match:request"
            /\ out # <<>>
            /\ out[1].ev = "match:queued"

IsBanned(e) == e \in DOMAIN reputations /\ reputations[e].banned

\* C1: in every reachable state each connection handle is a participant of
\* at most one session of the session registry.
C1_AtMostOneSession ==
    \A h \in 1..opened : Cardinality(SessionsOf(sessions, h)) <= 1

\* C2: in every reachable state a handle occurs in at most one mode queue
\* and at most once in it, and after an accepted match request of a handle
\* for a mode the other mode's queue does not hold the handle.
C2_OneQueueEntry ==
    /\ \A h \in 1..opened :
          /\ Cardinality(WaitingModes(waitingQueues, h)) <= 1
          /\ \A m \in Modes : Occurrences(waitingQueues[m], h) <= 1
    /\ Accepted =>
          \A m \in Modes \ {last.mode} :
             last.h \notin SeqToSet(waitingQueues[m])

\* a handle that waited in one mode has been accepted for the other mode
\* and waits there
C2_Witness ==
    /\ Accepted
    /\ last.waited # {}
    /\ last.mode \notin last.waited
    /\ last.h \in SeqToSet(waitingQueues[last.mode])

\* C4: a match request of a handle whose profile email is banned at that
\* time emits exactly one event, the ban notice to that handle (so no
\* queued or paired event), and leaves the queues and the sessions as
\* they were.
C4_BannedRequestRejected ==
    [][ (/\ last'.op = "match:request"
         /\ last'.mode \in Modes
         /\ profile[last'.h] # NoProfile
         /\ IsBanned(profile[last'.h].email))
        => (/\ Len(out') = 1
            /\ out'[1].to = last'.h
            /\ out'[1].ev = "system:banned"
            /\ out'[1].rep.banned
            /\ waitingQueues' = waitingQueues
            /\ sessions' = sessions) ]_vars

\* a banned handle has just asked for a match and got the ban notice
C4_Witness ==
    /\ last.op = "match:request"
    /\ last.mode \in Modes
    /\ profile[last.h] # NoProfile
    /\ IsBanned(profile[last.h].email)
    /\ out = <<[to |-> last.h, ev |-> "system:banned",
                rep |-> reputations[profile[last.h].email]]>>

\* C5: once an email is banned no queue holds a handle whose profile email
\* is that email, and no session created from then on has a participant
\* whose profile email is that email.
C5_BannedNeverQueuedNorPaired ==
    [][ /\ \A m \in Modes : \A h \in SeqToSet(waitingQueues'[m]) \cap live' :
              profile'[h] # NoProfile =>
                 ~ (profile'[h].email \in DOMAIN reputations'
                    /\ reputations'[profile'[h].email].banned)
        /\ \A s \in DOMAIN sessions' \ DOMAIN sessions :
              \A h \in SeqToSet(sessions'[s].participants) \cap live' :
                 profile'[h] # NoProfile => ~ IsBanned(profile'[h].email)
      ]_vars
Distinct(q) == \A i, j \in 1..Len(q) : i # j => q[i] # q[j]

\* C3: when accepted match requests for one mode arrive in a row from
\* distinct handles h1, h2, h3, h4 (the queue empty before h1, no leave,
\* disconnect or other request in between), then after each of them the
\* sessions created are exactly (h1,h2), (h3,h4) as far as the requests
\* have arrived, and the only handle waiting is the latest arrival when
\* their number is odd: no session pairs a handle with a later arrival
\* while an earlier one waits.
C3_StrictFifo ==
    (run # Off /\ run # NoRun /\ Distinct(run.reqs)) =>
        LET n == Len(run.reqs)
        IN  /\ run.pairs = [i \in 1..(n \div 2) |->
                              <<run.reqs[2 * i - 1], run.reqs[2 * i]>>]
            /\ waitingQueues[run.mode] =
                 IF n % 2 = 1 THEN <<run.reqs[n]>> ELSE <<>>

\* four distinct handles have asked for the same mode in a row
C3_Witness ==
    /\ run # Off /\ run # NoRun
    /\ Len(run.reqs) = 4
    /\ Distinct(run.reqs)
    /\ Len(run.pairs) = 2
    /\ \A i \in 1..2 : \E s \in DOMAIN sessions :
          sessions[s].participants = run.pairs[i]
Reacted == /\ last.op = "profile:reaction"
           /\ last.target # ""
           /\ last.type # ""

\* C6: in every reachable state every record of the ledger has
\* banned = (reports >= 3 \/ dislikes >= 10).
C6_BanRule ==
    \A e \in DOMAIN reputations :
        reputations[e].banned =
            (reputations[e].reports >= 3 \/ reputations[e].dislikes >= 10)

\* a record banned by its tenth dislike with fewer than three reports
C6_Witness ==
    \E e \in DOMAIN reputations :
        /\ reputations[e].banned
        /\ reputations[e].dislikes = 10
        /\ reputations[e].reports < 3

\* C7: in every step no record leaves the ledger, no counter of a record
\* decreases, and a record that is banned stays banned.
C7_Monotonic ==
    [][ \A e \in DOMAIN reputations :
          /\ e \in DOMAIN reputations'
          /\ reputations'[e].likes >= reputations[e].likes
          /\ reputations'[e].dislikes >= reputations[e].dislikes
          /\ reputations'[e].reports >= reputations[e].reports
          /\ reputations[e].banned => reputations'[e].banned ]_vars

\* a reaction has been applied to a record that was banned before it
C7_Witness ==
    /\ Reacted
    /\ last.before.banned
    /\ last.type = "like"
    /\ reputations[last.target].banned
    /\ reputations[last.target].likes = last.before.likes + 1

\* C8: when a reaction takes a record from not banned to banned, the
\* record it returns (sent in the reputation update) has banned = TRUE and
\* every handle registered for that email in the identity registry gets a
\* ban notice from that handler.
C8_BanBroadcast ==
    (Reacted /\ ~ last.before.banned /\ reputations[last.target].banned) =>
        /\ \E i \in 1..Len(out) :
              /\ out[i].ev = "profile:reputation"
              /\ out[i].email = last.target
              /\ out[i].rep.banned
        /\ last.target \in DOMAIN emailToSockets =>
              \A h \in emailToSockets[last.target] :
                 \E i \in 1..Len(out) :
                    /\ out[i].to = h
                    /\ out[i].ev = "system:banned"
                    /\ out[i].rep = reputations[last.target]

\* the third report has banned an email two connections are registered for
C8_Witness ==
    /\ Reacted
    /\ ~ last.before.banned
    /\ reputations[last.target].banned
    /\ last.type = "report"
    /\ last.target \in DOMAIN emailToSockets
    /\ Cardinality(emailToSockets[last.target]) >= 2
RelayOps == {"chat:text:message"} \cup SignalEvents

\* C9: a chat or signaling payload whose session id names an existing
\* session of which the sender is a participant is delivered to exactly
\* one handle, the other participant of that session; any other payload is
\* delivered to nobody and nothing is sent to its sender.
C9_RelayToPeerOnly ==
    (last.op \in RelayOps /\ last.payload \notin {"", "missing"}) =>
        IF /\ last.sid \in DOMAIN sessions
           /\ last.h \in SeqToSet(sessions[last.sid].participants)
        THEN /\ Len(out) = 1
             /\ out[1].ev = last.op
             /\ out[1].sid = last.sid
             /\ out[1].to # last.h
             /\ out[1].to \in SeqToSet(sessions[last.sid].participants)
        ELSE out = <<>>

Notified(h, ev, sid) ==
    \E i \in 1..Len(out) :
        out[i].to = h /\ out[i].ev = ev /\ out[i].sid = sid

\* C10: when a disconnect ends a session the remaining participant gets
\* partner-left; when a leave ends a session the leaver gets session-ended
\* and the other participant partner-left; and session-ended for a session
\* goes to nobody but the participant whose leave ended it.
C10_EndNotices ==
    /\ (last.op = "disconnect" /\ last.ended.sid # 0) =>
          \A p \in SeqToSet(last.ended.participants) \ {last.h} :
             Notified(p, "system:partner-left", last.ended.sid)
    /\ (last.op = "chat:leave" /\ last.ended.sid # 0) =>
          /\ Notified(last.h, "system:session-ended", last.ended.sid)
          /\ \A p \in SeqToSet(last.ended.participants) \ {last.h} :
                Notified(p, "system:partner-left", last.ended.sid)
    /\ \A i \in 1..Len(out) :
          out[i].ev = "system:session-ended" =>
             /\ last.op = "chat:leave"
             /\ out[i].to = last.h
             /\ out[i].sid = last.ended.sid
             /\ last.h \in SeqToSet(last.ended.participants)

PartnerLeftCount(o, b, s) ==
    Cardinality({i \in 1..Len(o) :
                    /\ o[i].to = b
                    /\ o[i].ev = "system:partner-left"
                    /\ o[i].sid = s})

\* C11: when a handle disconnects, every session it is a participant of
\* leaves the session registry and each connected partner in it gets
\* exactly one partner-left for that session id; partner-left is only sent
\* for a session the same handler removes (so none follows a leave that
\* already ended it); a session id that has left the registry never
\* returns; and a chat or signaling relay on a session id that is not in
\* the registry delivers nothing.
C11_DisconnectEndsSession ==
    [][ /\ last'.op = "disconnect" =>
              \A s \in SessionsOf(sessions, last'.h) :
                 /\ s \notin DOMAIN sessions'
                 /\ \A b \in (SeqToSet(sessions[s].participants)
                                \ {last'.h}) \cap live' :
                       PartnerLeftCount(out', b, s) = 1
        /\ \A i \in 1..Len(out') :
              out'[i].ev = "system:partner-left" =>
                 /\ out'[i].sid \in DOMAIN sessions \ DOMAIN sessions'
                 /\ PartnerLeftCount(out', out'[i].to, out'[i].sid) = 1
        /\ \A s \in 1..issued :
              s \notin DOMAIN sessions => s \notin DOMAIN sessions'
        /\ (last'.op \in RelayOps /\ last'.sid \notin DOMAIN sessions) =>
              out' = <<>>
      ]_vars

\* C12: in every state a handle whose disconnect has been handled is in
\* no mode queue, is a participant of no session of the session registry
\* and is in no email's handle set of the identity registry.
C12_NothingOrphaned ==
    \A h \in (1..opened) \ live :
        /\ WaitingModes(waitingQueues, h) = {}
        /\ SessionsOf(sessions, h) = {}
        /\ \A e \in DOMAIN emailToSockets : h \notin emailToSockets[e]

\* C15: a leave that names an existing session of which the sender is not
\* a participant leaves that session in the session registry as it was,
\* and no participant of it gets partner-left or session-ended.
C15_StaleLeaveDropped ==
    [][ (/\ last'.op = "chat:leave"
         /\ last'.sid \in DOMAIN sessions
         /\ last'.h \notin SeqToSet(sessions[last'.sid].participants))
        => (/\ last'.sid \in DOMAIN sessions'
            /\ sessions'[last'.sid] = sessions[last'.sid]
            /\ \A i \in 1..Len(out') :
                  out'[i].to \in SeqToSet(sessions[last'.sid].participants)
                  => out'[i].ev \notin {"system:partner-left",
                                        "system:session-ended"}) ]_vars

\* C16: after the disconnect handler and after the leave handler of a
\* handle, the handle is in no queue, the session found for the handle
\* before the handler is not in the session registry, and the handle is in
\* no email's handle set of the identity registry.  (A handler runs to
\* completion before any other, so the order of its three steps shows only
\* in these effects.)
C16_TeardownSteps ==
    [][ last'.op \in {"disconnect", "chat:leave"} =>
          /\ WaitingModes(waitingQueues', last'.h) = {}
          /\ FindSessionBySocket(sessions, last'.h) \notin DOMAIN sessions'
          /\ \A e \in DOMAIN emailToSockets' :
                last'.h \notin emailToSockets'[e] ]_vars

PairedFor(s) == {i \in 1..Len(out) : out[i].ev = "match:paired"
                                      /\ out[i].sid = s}

\* what a paired event may carry of the partner's stored profile q: its
\* name (or the placeholder), its email, its interests (or none), and no
\* other field
ViewOf(v, q) ==
    /\ DOMAIN v = {"name", "email", "interests"}
    /\ v.email = q.email
    /\ v.name = (IF "name" \in DOMAIN q THEN q.name ELSE "Unknown Badger")
    /\ v.interests = (IF "interests" \in DOMAIN q THEN q.interests
                      ELSE <<>>)

\* C13: when a match request creates a session, exactly two paired events
\* carry its id, one to each participant, both with the session's mode;
\* the event to a participant holds the sanitized profile of the other
\* participant (name, email, interests and nothing else); the event to the
\* participant dequeued first, and only that one, has initiator = TRUE.
C13_PairedEvents ==
    /\ \A i \in 1..Len(out) :
          out[i].ev = "match:paired" =>
             /\ last.op = "match:request"
             /\ out[i].sid \in DOMAIN sessions
    /\ last.op = "match:request" =>
          \A s \in DOMAIN sessions :
             (s > last.before \/ PairedFor(s) # {}) =>
                LET a == sessions[s].participants[1]
                    b == sessions[s].participants[2]
                IN  /\ a # b
                    /\ Cardinality(PairedFor(s)) = 2
                    /\ \E i, j \in PairedFor(s) :
                          /\ out[i].to = a /\ out[j].to = b
                          /\ out[i].mode = sessions[s].mode
                          /\ out[j].mode = sessions[s].mode
                          /\ ViewOf(out[i].partnerProfile, profile[b])
                          /\ ViewOf(out[j].partnerProfile, profile[a])
                          /\ out[i].initiator = TRUE
                          /\ out[j].initiator = FALSE
                    /\ last.h = b
                    /\ last.queue = <<a>>

\* two users with different profiles are paired: the one with the bare
\* profile waited, the other one, whose stored profile has a field beyond
\* name, email and interests, asked second
C13_Witness ==
    /\ last.op = "match:request"
    /\ \E s \in DOMAIN sessions :
          /\ PairedFor(s) # {}
          /\ profile[sessions[s].participants[1]].email = "b@wisc.edu"
          /\ profile[sessions[s].participants[2]].email = "a@wisc.edu"
          /\ "likes" \in DOMAIN profile[sessions[s].participants[2]]

RegisteredFor(h) == {e \in DOMAIN emailToSockets : h \in emailToSockets[e]}

\* C19: in every reachable state a connected handle is in the handle set
\* of at most one email of the identity registry, and when its current
\* profile has an email, of that email and no other.
C19_OneEmailPerHandle ==
    \A h \in live :
        /\ Cardinality(RegisteredFor(h)) <= 1
        /\ (profile[h] # NoProfile /\ profile[h].email # "") =>
              RegisteredFor(h) = {profile[h].email}

\* C17: a step of the profile registration, of a match request or of the
\* reputation lookup endpoint leaves the reputation ledger as it was (a
\* read of an unseen email adds no key); only a reaction changes it.
C17_ReadsCreateNothing ==
    [][ /\ last'.op \in {"profile:update", "match:request",
                         "GET /reputation"} => reputations' = reputations
        /\ reputations' # reputations => last'.op = "profile:reaction"
      ]_vars

\* C14: a reaction whose session id names no session of the registry, or
\* a session of which the sender is not a participant, changes no record
\* of the reputation ledger and emits nothing.
C14_ReactionSessionCheck ==
    [][ (/\ last'.op = "profile:reaction"
         /\ ~ (/\ last'.sid \in DOMAIN sessions
               /\ last'.h \in SeqToSet(sessions[last'.sid].participants)))
        => (/\ reputations' = reputations
            /\ out' = <<>>) ]_vars

\* a request that is malformed or incomplete, or has no payload
Malformed(l) ==
    \/ l.op = "match:request" /\ l.mode \notin Modes
    \/ l.op = "chat:text:message" /\ (l.sid = 0 \/ l.payload = "")
    \/ l.op \in SignalEvents /\ (l.sid = 0 \/ l.payload = "missing")
    \/ l.op = "profile:reaction" /\ (l.target = "" \/ l.type = "")
    \/ l.op = "no payload"

\* C20: a malformed or incomplete request, or a request with no payload,
\* leaves the queues, the sessions, the ledger and the identity registry
\* as they were, emits nothing to any connection but its sender, and
\* afterwards the sender is still connected and the process still runs.
C20_MalformedDropped ==
    [][ Malformed(last') =>
          /\ waitingQueues' = waitingQueues
          /\ sessions' = sessions
          /\ reputations' = reputations
          /\ emailToSockets' = emailToSockets
          /\ \A i \in 1..Len(out') : out'[i].to = last'.h
          /\ last'.h \in live'
          /\ up' ]_vars

\* every queue entry is the id of a connected socket: the disconnect
\* handler filters the queues in the step in which the socket leaves
\* io.sockets.sockets, so the drain never shifts the id of a socket that
\* is gone
QueuedAreLive ==
    \A m \in Modes : SeqToSet(waitingQueues[m]) \subseteq live

Delivered == /\ last.op = "chat:text:message"
             /\ out # <<>>

\* C22: every chat message delivered to the peer carries the time the
\* server read when it relayed the message: it is not earlier than the
\* server time at which the message arrived, and it is not the timestamp
\* the client put into the payload.
C22_ServerTimestamp ==
    Delivered =>
        /\ Len(out) = 1
        /\ out[1].timestamp = last.now
        /\ out[1].timestamp >= last.received
        /\ last.stamp.given => out[1].timestamp # last.stamp.at

\* a message whose payload had a timestamp of its own has been delivered,
\* and time passed on the server while it was handled
C22_Witness ==
    /\ Delivered
    /\ last.stamp.given
    /\ out[1].timestamp > last.received

Counter(rec, type) ==
    IF type = "like" THEN rec.likes
    ELSE IF type = "dislike" THEN rec.dislikes
    ELSE rec.reports

\* C21: every reaction of type like, dislike or report raises its counter
\* of the target's record by one, also when the same connection has sent
\* the same reaction for the same email with the same session id before;
\* so after one connection's third report in a row, or tenth dislike in a
\* row, for an email, that email is banned.
C21_NoDeduplication ==
    (Reacted /\ run.state = "streak") =>
        /\ run.n >= 1
        /\ run.h = last.h /\ run.type = last.type /\ run.email = last.target
        /\ last.type \in ReactionTypes =>
              Counter(reputations[last.target], last.type)
                 = Counter(last.before, last.type) + 1
        /\ last.type \in ReactionTypes =>
              Counter(reputations[last.target], last.type) >= run.n
        /\ (run.type = "report" /\ run.n >= 3) =>
              reputations[last.target].banned
        /\ (run.type = "dislike" /\ run.n >= 10) =>
              reputations[last.target].banned

\* one connection has sent the same dislike ten times in a row, the email
\* has no report and is banned by the tenth
C21_Witness ==
    /\ Reacted
    /\ run.state = "streak"
    /\ run.n = 10
    /\ run.type = "dislike"
    /\ reputations[last.target].reports = 0
    /\ ~ last.before.banned
    /\ reputations[last.target].banned

BanNoticeTo(h) ==
    \E i \in 1..Len(out) : out[i].to = h /\ out[i].ev = "system:banned"

\* C29: the ledger and the identity registry have no key in the spelling
\* A@wisc.edu and every stored profile email is a@wisc.edu; a report that
\* names the email in either spelling adds one to the reports of the
\* record a@wisc.edu; when that record becomes banned every connection
\* whose profile was sent as A@wisc.edu gets the ban notice; and a match
\* request of such a connection while the record is banned is answered
\* with the ban notice only and puts it into no queue.
C29_CaseInsensitive ==
    /\ \A e \in DOMAIN reputations \cup DOMAIN emailToSockets :
          e # "A@wisc.edu"
    /\ \A h \in live :
          profile[h] # NoProfile => profile[h].email = "a@wisc.edu"
    /\ Reacted =>
          /\ last.target = "a@wisc.edu"
          /\ reputations["a@wisc.edu"].reports = last.before.reports + 1
          /\ run.n >= 1
          /\ reputations["a@wisc.edu"].reports >= run.n
    /\ (Reacted /\ ~ last.before.banned
          /\ reputations["a@wisc.edu"].banned) =>
          \A h \in live : profile[h] # NoProfile => BanNoticeTo(h)
    /\ (/\ last.op = "match:request"
        /\ profile[last.h] # NoProfile
        /\ IsBanned("a@wisc.edu")) =>
          /\ out = <<[to |-> last.h, ev |-> "system:banned",
                      rep |-> reputations["a@wisc.edu"]]>>
          /\ WaitingModes(waitingQueues, last.h) = last.waited

\* three reports in a row by one connection, in both spellings of the
\* email, have banned it, and a connection whose profile was sent as
\* A@wisc.edu has then asked for a match and got the ban notice
C29_Witness ==
    /\ run.n = 3
    /\ run.raws = OneUser
    /\ IsBanned("a@wisc.edu")
    /\ last.op = "match:request"
    /\ profile[last.h] # NoProfile
    /\ out = <<[to |-> last.h, ev |-> "system:banned",
                rep |-> reputations["a@wisc.edu"]]>>

Created == DOMAIN sessions' \ DOMAIN sessions

\* C23: every session of the registry has two participants, different
\* from each other, and a mode in {text, video}; a session enters the
\* registry only in a match request, with the mode of that request and
\* with participants that are the requester or were in that mode's queue,
\* and both have left the queue; a session that stays in the registry
\* stays as it is.
C23_SessionsImmutable ==
    [][ /\ \A s \in DOMAIN sessions' :
              /\ Len(sessions'[s].participants) = 2
              /\ sessions'[s].participants[1] # sessions'[s].participants[2]
              /\ sessions'[s].mode \in Modes
        /\ \A s \in DOMAIN sessions \cap DOMAIN sessions' :
              sessions'[s] = sessions[s]
        /\ \A s \in Created :
              /\ last'.op = "match:request"
              /\ sessions'[s].mode = last'.mode
              /\ \A p \in SeqToSet(sessions'[s].participants) :
                    /\ p = last'.h
                       \/ p \in SeqToSet(waitingQueues[last'.mode])
                    /\ p \notin SeqToSet(waitingQueues'[last'.mode])
      ]_vars

\* a match request for the video lounge has created a session
C23_Witness ==
    /\ last.op = "match:request"
    /\ \E s \in DOMAIN sessions :
          /\ s > last.before
          /\ sessions[s].mode = "video"
          /\ last.h \in SeqToSet(sessions[s].participants)

\* C24: a match request of handle h leaves the queue of every mode other
\* than the requested one as it was or as it was without h; a session it
\* creates has no participant other than h that waited in another mode;
\* and both participants of a session have, when it is created, the
\* session's mode as the mode of their latest accepted request.
C24_ModesIndependent ==
    [][ last'.op = "match:request" =>
          /\ \A m \in Modes \ {last'.mode} :
                \/ waitingQueues'[m] = waitingQueues[m]
                \/ waitingQueues'[m] = FilterOut(waitingQueues[m], last'.h)
          /\ \A s \in Created :
                \A p \in SeqToSet(sessions'[s].participants) :
                   /\ mode'[p] = sessions'[s].mode
                   /\ p # last'.h =>
                         \A m \in Modes \ {last'.mode} :
                            p \notin SeqToSet(waitingQueues[m])
      ]_vars

\* a handle has been accepted for one mode while another handle waits in
\* the other mode, and that one still waits there
C24_Witness ==
    /\ Accepted
    /\ waitingQueues[last.mode] = <<last.h>>
    /\ \E m \in Modes \ {last.mode} :
          /\ waitingQueues[m] # <<>>
          /\ last.h \notin SeqToSet(waitingQueues[m])

\* C27: in every reachable state each mode queue holds at most one entry.
C27_AtMostOneWaiting ==
    \A m \in Modes : Len(waitingQueues[m]) <= 1

\* an accepted request found a handle waiting in its mode; the two have
\* been paired and the queue is empty
C27_Witness ==
    /\ Accepted
    /\ Len(last.queue) = 1
    /\ waitingQueues[last.mode] = <<>>
    /\ \E s \in DOMAIN sessions :
          /\ s > last.before
          /\ sessions[s].participants = <<last.queue[1], last.h>>

\* C28: a step creates at most one session; a session is created only in
\* a match request, from the requester and from handles that were in the
\* queue of the requested mode, and its participants are in no queue
\* afterwards; after a leave or a disconnect the handle is in no queue and
\* the step has created no session.
C28_EntryConsumedOnce ==
    [][ /\ Cardinality(Created) <= 1
        /\ \A s \in Created :
              /\ last'.op = "match:request"
              /\ \A p \in SeqToSet(sessions'[s].participants) :
                    /\ p = last'.h
                       \/ p \in SeqToSet(waitingQueues[last'.mode])
                    /\ WaitingModes(waitingQueues', p) = {}
        /\ last'.op \in {"chat:leave", "disconnect"} =>
              /\ WaitingModes(waitingQueues', last'.h) = {}
              /\ Created = {}
      ]_vars

\* a handle that asked for a mode and left the queue again is connected
\* and unpaired, and another handle's accepted request for the same mode
\* waits alone
C28_Witness ==
    /\ Accepted
    /\ issued = 0
    /\ waitingQueues[last.mode] = <<last.h>>
    /\ \E g \in live \ {last.h} :
          /\ mode[g] = last.mode
          /\ WaitingModes(waitingQueues, g) = {}

C26_LeaverIsFree ==
    last.op = "chat:leave" =>
        /\ SessionsOf(sessions, last.h) = {}
        /\ WaitingModes(waitingQueues, last.h) = {}

\* C25: after every sequence of like, dislike and report reactions applied
\* to recordReaction and to applyReaction alike, both hold for every email
\* a record with the same likes, dislikes, reports and banned.
C25_SameBanRule ==
    \A e \in MirrorEmails :
        LET c == GetReputationFor(feedback, e)
            v == GetReputation(reputations, e)
        IN  /\ c.likes = v.likes
            /\ c.dislikes = v.dislikes
            /\ c.reports = v.reports
            /\ c.banned = v.banned

\* on both sides one email has been banned by its third report and the
\* other by its tenth dislike
C25_Witness ==
    /\ GetReputationFor(feedback, "a@wisc.edu").banned
    /\ GetReputationFor(feedback, "a@wisc.edu").reports = 3
    /\ GetReputationFor(feedback, "a@wisc.edu").dislikes < 10
    /\ GetReputation(reputations, "a@wisc.edu").banned
    /\ GetReputationFor(feedback, "b@wisc.edu").banned
    /\ GetReputationFor(feedback, "b@wisc.edu").dislikes = 10
    /\ GetReputationFor(feedback, "b@wisc.edu").reports < 3
    /\ GetReputation(reputations, "b@wisc.edu").banned
\* C36: the identity registry never holds an email with an empty handle
\* set nor the handle of a closed connection: a disconnect takes the handle
\* out of every email's set and drops exactly the emails whose set becomes
\* empty, and a profile update of a handle that is already in the set of
\* the email it sends leaves the registry as it was.
C36_RegistryClean ==
    [][ /\ \A e \in DOMAIN emailToSockets' :
              /\ emailToSockets'[e] # {}
              /\ emailToSockets'[e] \subseteq live'
        /\ last'.op = "disconnect" =>
              /\ DOMAIN emailToSockets' =
                    {e \in DOMAIN emailToSockets :
                       emailToSockets[e] # {last'.h}}
              /\ \A e \in DOMAIN emailToSockets' :
                    emailToSockets'[e] = emailToSockets[e] \ {last'.h}
        /\ last'.op = "profile:update" =>
              LET e == profile'[last'.h].email
              IN  (e \in DOMAIN emailToSockets
                     /\ last'.h \in emailToSockets[e]) =>
                        emailToSockets' = emailToSockets ]_vars

\* a connection closed, the email it alone was registered for (the ledger
\* still has its record) is gone and another email's set is still there
C36_Witness ==
    /\ last.op = "disconnect"
    /\ DOMAIN emailToSockets # {}
    /\ \E e \in DOMAIN reputations :
          e # "" /\ e \notin DOMAIN emailToSockets

\* C35: the pairing drain terminates.  While attemptPair runs, twice the
\* number of passes through its loop plus the length of the queue is the
\* length the queue had at the call (a pass takes two entries and adds
\* none), so there are at most floor(n/2) passes, and a drain that has
\* begun comes to its end.
C35_DrainTerminates ==
    /\ [](drain.state = "loop" =>
             /\ 2 * drain.iterations + Len(waitingQueues[drain.mode])
                   = drain.n
             /\ drain.iterations <= drain.n \div 2)
    /\ (drain.state = "loop" ~> drain = NotDraining)

\* a drain has ended after one pass through the loop, which took the two
\* entries of the queue and made a session of them
C35_Witness ==
    /\ drain = NotDraining
    /\ last.op = "match:request"
    /\ "iterations" \in DOMAIN last
    /\ last.n = 2
    /\ last.iterations = 1
    /\ waitingQueues[last.mode] = <<>>
    /\ issued = last.before + 1

QueuedAt == {i \in 1..Len(out) : out[i].ev = "match:queued"}

PairedTo(h) == {i \in 1..Len(out) : out[i].ev = "match:paired"
                                     /\ out[i].to = h}

\* the events the last handler emitted to h are the last ones on their way
\* to the tab t
JustEmitted(t, h) ==
    LET mine == EventsFor(out, h)
        k == Len(t.inbox) - Len(mine)
    IN  /\ t.id = h
        /\ k >= 0
        /\ SubSeq(t.inbox, k + 1, Len(t.inbox)) = mine

\* C32: an accepted match request emits match:queued to the requesting
\* connection, with the length of the queue right after its entry was
\* appended, before every match:paired of that request; so the text page of
\* the requester, which shows matching on queued and connected on paired,
\* shows connected once it has taken the events of a request that paired it.
C32_QueuedBeforePaired ==
    (last.op = "match:request" /\ QueuedAt # {}) =>
        /\ \A i \in QueuedAt :
              /\ out[i].to = last.h
              /\ out[i].queueLength = Len(last.queue) + 1
              /\ \A j \in 1..Len(out) : out[j].ev = "match:paired" => i < j
        /\ \A c \in DOMAIN client :
              (/\ JustEmitted(client[c], last.h)
               /\ client[c].page = "text"
               /\ last.mode = "text"
               /\ PairedTo(last.h) # {}) =>
                  AfterEvents(client[c], client[c].inbox).status = "connected"

\* the request of a tab on the text page met a waiting entry: queued (2
\* in the queue) and paired are on their way to the tab, which still shows
\* matching
C32_Witness ==
    /\ last.op = "match:request"
    /\ last.mode = "text"
    /\ Len(out) = 3
    /\ out[1].ev = "match:queued"
    /\ out[1].queueLength = 2
    /\ PairedTo(last.h) # {}
    /\ \E c \in DOMAIN client :
          /\ JustEmitted(client[c], last.h)
          /\ client[c].page = "text"
          /\ client[c].status = "matching"
          /\ Len(client[c].inbox) = 2

\* C34: whenever the chat page of a connected tab shows matching and no
\* event is on its way to the tab, the server holds the tab's connection
\* in the waiting queue of the page's mode or a match request of the tab
\* is on its way to the server.
C34_MatchingMeansQueued ==
    \A c \in DOMAIN client :
        LET t == client[c]
        IN  (/\ t.sock = "connected"
             /\ t.id \in live
             /\ t.page \in Modes
             /\ t.status = "matching"
             /\ t.inbox = <<>>) =>
                \/ t.id \in SeqToSet(waitingQueues[t.page])
                \/ \E i \in 1..Len(t.outbox) :
                      t.outbox[i].ev = "match:request"

\* C31: a match request a tab has emitted is on a connection on which the
\* tab has emitted its profile before, and the server answers no match
\* request with system:error ('Profile missing').
C31_ProfileBeforeRequest ==
    /\ \A c \in DOMAIN client :
          \A i \in 1..Len(client[c].outbox) :
              client[c].outbox[i].ev = "match:request" =>
                  client[c].profiled = client[c].id
    /\ last.op = "match:request" =>
          \A i \in 1..Len(out) : out[i].ev # "system:error"

\* C33: the signaling of a video session is asymmetric.  A tab emits a
\* webrtc:offer for a session only if the match:paired event it received for
\* that session carried initiator = true; it emits a webrtc:answer for a
\* session only if it was not the initiator of it and has received an
\* offer for it while it was the page's current session.
C33_AsymmetricHandshake ==
    \A c \in DOMAIN client :
        \A i \in 1..Len(client[c].outbox) :
            LET msg == client[c].outbox[i]
            IN  /\ msg.ev = "webrtc:offer" =>
                      msg.sid \in client[c].initiated
                /\ msg.ev = "webrtc:answer" =>
                      /\ msg.sid \in client[c].offered
                      /\ msg.sid \notin client[c].initiated

\* the handshake of a session: the tab that was paired as the initiator
\* has sent its offer, the other tab has received it and its answer is on
\* the way
C33_Witness ==
    \E c, d \in DOMAIN client :
        /\ c # d
        /\ client[c].page = "video"
        /\ client[d].page = "video"
        /\ client[c].sessionId = client[d].sessionId
        /\ client[c].sessionId \in client[c].initiated
        /\ client[d].sessionId \in client[d].offered
        /\ client[d].sessionId \notin client[d].initiated
        /\ client[d].outbox =
              <<[ev |-> "webrtc:answer", sid |-> client[d].sessionId]>>

====
